---- MODULE Spec2Model ----
(***************************************************************************)
(* Model of the notification orchestrator: a worker thread that connects   *)
(* a RabbitMQ consumer and a publisher (with bounded retries), registers   *)
(* four on_message callbacks, and consumes; and the main thread that       *)
(* starts the worker, serves HTTP and tears the sessions down on a signal  *)
(* or on application shutdown.                                             *)
(*                                                                         *)
(* Spec follows the whole process; a setup attempt is one step, which      *)
(* makes the declarations up to the call that failed. SignalSpec is Spec   *)
(* with the signal as the only shutdown. PipelineSpec runs the consume     *)
(* phase of Spec on one delivery whose body is drawn from a wide set of    *)
(* payloads. FairConsumeSpec runs the consume phase and the shutdown with  *)
(* the worker scheduled fairly. TopologySpec follows, call by call, the    *)
(* declarations the two setups make on the broker.                         *)
(***************************************************************************)
EXTENDS Integers, Sequences, FiniteSets, TLC

(* ----------------------------- bounds ---------------------------------- *)

\* Messages the upstream producers publish during one run of the process.
MaxMsgs == 2

\* Times the setup of each session runs its declarations against the broker.
MaxSetups == 2

(* ------------------------- program constants --------------------------- *)

MAX_RETRIES == 20
WAIT_SECONDS == 3

usuarios_queue == "usuarios.events"
sesiones_queue == "sesiones.events"
password_reset_queue == "password.reset.requested"
password_updated_queue == "password.updated"
notifications_queue == "notifications.delivery"
exchange_name == "app.events"
notifications_routing_key == "notifications.send"

\* The four input queues _declare_queues declares and binds.
Queues ==
  {usuarios_queue, sesiones_queue, password_reset_queue, password_updated_queue}

\* The two broker sessions of the process.
Sessions == {"consumer", "publisher"}

(* ------------------------------ decoding ------------------------------- *)

\* Required fields (by alias) of the pydantic model each queue decodes into.
Required(q) ==
  CASE q = usuarios_queue -> {"usuarioId", "email", "nombre", "timestamp"}
    [] q = sesiones_queue -> {"usuarioId", "email", "nombre", "timestamp"}
    [] q = password_reset_queue ->
         {"usuarioId", "email", "nombre", "token", "fechaSolicitud"}
    [] q = password_updated_queue ->
         {"usuarioId", "email", "nombre", "fechaActualizacion"}

\* Optional[str] fields (by alias) of each model, default None.
Optional(q) ==
  CASE q = usuarios_queue -> {"activationToken", "baseUrl"}
    [] q = sesiones_queue -> {"ipAddress", "userAgent", "deviceInfo", "location"}
    [] OTHER -> {}

\* Every key a producer may put in a body.
AllKeys == UNION {Required(q) \cup Optional(q) : q \in Queues}

\* Field(alias=...): the attribute each key is stored under.
AttrOf(k) ==
  CASE k = "usuarioId" -> "usuario_id"
    [] k = "activationToken" -> "activation_token"
    [] k = "baseUrl" -> "base_url"
    [] k = "ipAddress" -> "ip_address"
    [] k = "userAgent" -> "user_agent"
    [] k = "deviceInfo" -> "device_info"
    [] k = "fechaSolicitud" -> "fecha_solicitud"
    [] k = "fechaActualizacion" -> "fecha_actualizacion"
    [] OTHER -> k

\* Values of a JSON object's keys: a key that is not there, null, a number
\* (written with a leading #), or a string.
Absent == "<absent>"
Null == "<null>"
None == "<None>"
IsString(v) == v \notin {Absent, Null, "#42"}

\* An int field takes a JSON integer or a string of digits.
IsIntLike(v) == v \in {"#42", "7"}

\* Datetimes are minutes counted from 2024-01-01T00:00:00; -1 stands for a
\* value pydantic cannot read as a datetime.
ParseDatetime(v) ==
  CASE v = "2024-01-01T10:00:00" -> 600
    [] v = "2024-01-01 10:00:00" -> 600
    [] v = "2024-01-02T11:30:00" -> 2130
    [] OTHER -> -1

\* datetime -> str of model_dump(mode='json'): "2024-01-DDThh:mm:00", kept
\* as its three numbers.
IsoFormat(t) ==
  [day |-> 1 + t \div 1440, hh |-> (t % 1440) \div 60, mm |-> t % 60]

\* datetime.now() while delivery number id is handled: the clock is past
\* every timestamp the producers send and advances from one delivery to the
\* next.
Now(id) == 3000 + id

\* The declared type of the field behind key k of queue q's model.
FieldType(q, k) ==
  IF k \in Optional(q) THEN "Optional[str]"
  ELSE IF k \in {"timestamp", "fechaSolicitud", "fechaActualizacion"} THEN "datetime"
  ELSE IF k = "usuarioId" /\ q = sesiones_queue THEN "int"
  ELSE "str"

\* pydantic accepts value v for a field of type t.
Accepts(t, v) ==
  CASE t = "str" -> IsString(v)
    [] t = "int" -> IsIntLike(v)
    [] t = "datetime" -> IsString(v) /\ ParseDatetime(v) # -1
    [] t = "Optional[str]" -> v \in {Absent, Null} \/ IsString(v)

\* The attribute value pydantic stores for value v of a field of type t.
Stored(t, v) ==
  CASE t = "datetime" -> ParseDatetime(v)
    [] t = "Optional[str]" -> IF v \in {Absent, Null} THEN None ELSE v
    [] OTHER -> v

\* A JSON object with the keys and values of f.
JsonObject(f) ==
  [wellformed |-> TRUE,
   obj |-> [k \in AllKeys |-> IF k \in DOMAIN f THEN f[k] ELSE Absent]]

\* The keys present in a parsed body.
Present(body) == {k \in AllKeys : body.obj[k] # Absent}

\* Message bodies the producers send: bytes that are not JSON, a JSON object
\* with the fields common to the user/session events only, and a JSON object
\* with every field of every variant (pydantic ignores the extra ones).
Malformed == [wellformed |-> FALSE, obj |-> [k \in AllKeys |-> Absent]]
CommonBody ==
  JsonObject("usuarioId" :> "7" @@ "email" :> "a@b.com" @@ "nombre" :> "Ana"
             @@ "timestamp" :> "2024-01-01T10:00:00")
FullBody ==
  JsonObject("usuarioId" :> "7" @@ "email" :> "a@b.com" @@ "nombre" :> "Ana"
             @@ "timestamp" :> "2024-01-01 10:00:00" @@ "token" :> "XYZ"
             @@ "fechaSolicitud" :> "2024-01-02T11:30:00"
             @@ "fechaActualizacion" :> "2024-01-02T11:30:00")
Bodies == {Malformed, CommonBody, FullBody}

\* json.loads(body.decode('utf-8')) succeeds.
JsonLoads(body) == body.wellformed

\* The pydantic constructor of the queue's variant accepts the parsed object.
Validates(q, body) ==
  /\ Required(q) \subseteq Present(body)
  /\ \A k \in Required(q) \cup Optional(q) : Accepts(FieldType(q, k), body.obj[k])

\* json.loads followed by the pydantic constructor of the queue's variant.
DecodeOK(q, body) == JsonLoads(body) /\ Validates(q, body)

\* The statement of the try block at which decoding stops.
DecodeEvent(q, body) ==
  IF ~JsonLoads(body) THEN "json_fail"
  ELSE IF ~Validates(q, body) THEN "validation_fail"
  ELSE "decode_ok"

\* event = <Variant>Event(**data): the attributes of the decoded event.
Event(q, body) ==
  [a \in {AttrOf(k) : k \in Required(q) \cup Optional(q)} |->
     LET k == CHOOSE kk \in Required(q) \cup Optional(q) : AttrOf(kk) = a
     IN Stored(FieldType(q, k), body.obj[k])]

(* ------------------------------ transform ------------------------------ *)

\* NotificationType
USER_WELCOME == "user_welcome"
LOGIN_NOTIFICATION == "login_notification"
PASSWORD_RESET == "password_reset"
PASSWORD_UPDATED == "password_updated"

\* A dict is its set of <<key, value>> items; NoData is None where a dict is
\* expected.
Dict(items) == [none |-> FALSE, items |-> items]
NoData == [none |-> TRUE, items |-> {}]

\* Python truth of an Optional[str].
Truthy(v) == v \notin {None, ""}

\* additional_data[k] = v, executed when cond holds.
Entry(cond, k, v) == IF cond THEN {<<k, v>>} ELSE {}

\* Mutant of OrElse: the default is taken for None only, and an empty string
\* goes through.
OrElseIfNone(v, default) == IF v = None THEN default ELSE v

\* value if value else default
OrElse(v, default) == IF Truthy(v) THEN v ELSE default

\* Mutant of create_user_welcome_notification: the notification takes the
\* event's timestamp, as the other three do.
create_user_welcome_notification_EventTime(event, now) ==
  LET additional_data ==
        Entry("activation_token" \in DOMAIN event /\ Truthy(event.activation_token),
              "activationToken", event.activation_token)
        \cup Entry("base_url" \in DOMAIN event /\ Truthy(event.base_url),
                   "baseUrl", event.base_url)
  IN [type |-> USER_WELCOME,
      email |-> event.email,
      user_name |-> event.nombre,
      timestamp |-> event.timestamp,
      additional_data |-> IF additional_data # {} THEN Dict(additional_data)
                          ELSE NoData]

create_user_welcome_notification(event, now) ==
  LET additional_data ==
        Entry("activation_token" \in DOMAIN event /\ Truthy(event.activation_token),
              "activationToken", event.activation_token)
        \cup Entry("base_url" \in DOMAIN event /\ Truthy(event.base_url),
                   "baseUrl", event.base_url)
  IN [type |-> USER_WELCOME,
      email |-> event.email,
      user_name |-> event.nombre,
      timestamp |-> now,
      additional_data |-> IF additional_data # {} THEN Dict(additional_data)
                          ELSE NoData]

create_login_notification(event) ==
  [type |-> LOGIN_NOTIFICATION,
   email |-> event.email,
   user_name |-> event.nombre,
   timestamp |-> event.timestamp,
   additional_data |->
     Dict({<<"ipAddress", OrElse(event.ip_address, "Desconocida")>>,
           <<"userAgent", OrElse(event.user_agent, "Desconocido")>>,
           <<"deviceInfo", OrElse(event.device_info, "Desconocido")>>,
           <<"location", OrElse(event.location, "Desconocida")>>})]

\* Mutant of create_password_reset_notification: the token is stored under
\* the name of the event's field.
create_password_reset_notification_TokenKey(event) ==
  [type |-> PASSWORD_RESET,
   email |-> event.email,
   user_name |-> event.nombre,
   timestamp |-> event.fecha_solicitud,
   additional_data |-> Dict({<<"token", event.token>>})]

create_password_reset_notification(event) ==
  [type |-> PASSWORD_RESET,
   email |-> event.email,
   user_name |-> event.nombre,
   timestamp |-> event.fecha_solicitud,
   additional_data |-> Dict({<<"resetToken", event.token>>})]

\* Mutant of create_password_updated_notification: the type was left as
\* copied from create_password_reset_notification.
create_password_updated_notification_ResetType(event) ==
  [type |-> PASSWORD_RESET,
   email |-> event.email,
   user_name |-> event.nombre,
   timestamp |-> event.fecha_actualizacion,
   additional_data |-> NoData]

create_password_updated_notification(event) ==
  [type |-> PASSWORD_UPDATED,
   email |-> event.email,
   user_name |-> event.nombre,
   timestamp |-> event.fecha_actualizacion,
   additional_data |-> NoData]

\* The NotificationEvent built by the handle_* callback registered on queue q
\* (consume_usuarios(handle_usuario_creado), ...), now being the reading of
\* the clock while it runs.
Notification(q, event, now) ==
  CASE q = usuarios_queue -> create_user_welcome_notification(event, now)
    [] q = sesiones_queue -> create_login_notification(event)
    [] q = password_reset_queue -> create_password_reset_notification(event)
    [] q = password_updated_queue -> create_password_updated_notification(event)

\* model_dump is called without exclude_none.
exclude_none == FALSE

\* notification.model_dump(mode='json', by_alias=True), as json.dumps writes
\* it: the keys of the JSON object and their values.
ModelDump(n) ==
  [keys |-> {"type", "email", "userName", "timestamp"}
              \cup (IF exclude_none /\ n.additional_data.none
                      THEN {} ELSE {"additionalData"}),
   type |-> n.type,
   email |-> n.email,
   userName |-> n.user_name,
   timestamp |-> IsoFormat(n.timestamp),
   additionalData |-> n.additional_data]

\* What basic_publish puts on notifications.delivery for delivery m; src and
\* q record the delivery it was made from.
Published(m, now) ==
  [src |-> m.id, q |-> m.q,
   msg |-> ModelDump(Notification(m.q, Event(m.q, m.body), now))]

(* ------------------------------ topology ------------------------------- *)

\* The declarations of RabbitMQConsumer.setup_connection and _declare_queues,
\* in the order they are made.
ConsumerCalls ==
  <<[op |-> "exchange_declare", exchange |-> exchange_name,
     exchange_type |-> "topic", durable |-> TRUE],
    [op |-> "queue_declare", queue |-> usuarios_queue, durable |-> TRUE],
    [op |-> "queue_bind", exchange |-> exchange_name,
     queue |-> usuarios_queue, routing_key |-> "usuarios.created"],
    [op |-> "queue_declare", queue |-> sesiones_queue, durable |-> TRUE],
    [op |-> "queue_bind", exchange |-> exchange_name,
     queue |-> sesiones_queue, routing_key |-> "sesiones.iniciada"],
    [op |-> "queue_declare", queue |-> password_reset_queue, durable |-> TRUE],
    [op |-> "queue_bind", exchange |-> exchange_name,
     queue |-> password_reset_queue, routing_key |-> "password.reset.requested"],
    [op |-> "queue_declare", queue |-> password_updated_queue, durable |-> TRUE],
    [op |-> "queue_bind", exchange |-> exchange_name,
     queue |-> password_updated_queue, routing_key |-> "password.updated"]>>

\* Mutant of PublisherCalls: the publisher declares the exchange as direct.
PublisherCallsDirectExchange ==
  <<[op |-> "exchange_declare", exchange |-> exchange_name,
     exchange_type |-> "direct", durable |-> TRUE],
    [op |-> "queue_declare", queue |-> notifications_queue, durable |-> TRUE],
    [op |-> "queue_bind", exchange |-> exchange_name,
     queue |-> notifications_queue, routing_key |-> notifications_routing_key]>>

\* The declarations of NotificationPublisher.setup_connection.
PublisherCalls ==
  <<[op |-> "exchange_declare", exchange |-> exchange_name,
     exchange_type |-> "topic", durable |-> TRUE],
    [op |-> "queue_declare", queue |-> notifications_queue, durable |-> TRUE],
    [op |-> "queue_bind", exchange |-> exchange_name,
     queue |-> notifications_queue, routing_key |-> notifications_routing_key]>>

Calls(s) == IF s = "consumer" THEN ConsumerCalls ELSE PublisherCalls

\* A broker on which nothing has been declared.
EmptyBroker == [exchanges |-> {}, queues |-> {}, bindings |-> {}]

\* The broker raises on the call: an exchange or queue of that name exists
\* with other properties, or a binding names an exchange or queue that does
\* not exist.
Refused(b, c) ==
  CASE c.op = "exchange_declare" ->
         \E x \in b.exchanges :
           x.exchange = c.exchange
             /\ (x.exchange_type # c.exchange_type \/ x.durable # c.durable)
    [] c.op = "queue_declare" ->
         \E d \in b.queues : d.queue = c.queue /\ d.durable # c.durable
    [] c.op = "queue_bind" ->
         \/ \A x \in b.exchanges : x.exchange # c.exchange
         \/ \A d \in b.queues : d.queue # c.queue

\* The broker after a call it accepts: what is declared is there, once.
Declared(b, c) ==
  CASE c.op = "exchange_declare" ->
         [b EXCEPT !.exchanges = @ \cup {[exchange |-> c.exchange,
                                          exchange_type |-> c.exchange_type,
                                          durable |-> c.durable]}]
    [] c.op = "queue_declare" ->
         [b EXCEPT !.queues = @ \cup {[queue |-> c.queue, durable |-> c.durable]}]
    [] c.op = "queue_bind" ->
         [b EXCEPT !.bindings = @ \cup {[exchange |-> c.exchange, queue |-> c.queue,
                                         routing_key |-> c.routing_key]}]

\* The broker after a run of calls it accepts, in the order they are made.
RECURSIVE DeclareAll(_, _)
DeclareAll(b, calls) ==
  IF calls = <<>> THEN b
  ELSE DeclareAll(Declared(b, Head(calls)), Tail(calls))

\* The declarations a pass through the try block has made: all of them when
\* it succeeds, those before the call that raised when the topology step
\* fails (k of them), none when the connection was refused.
DeclaredBy(s, outcome, k) ==
  CASE outcome = "ok" -> Calls(s)
    [] outcome = "topology" -> SubSeq(Calls(s), 1, k)
    [] outcome = "refused" -> <<>>

(* ------------------------------- state --------------------------------- *)

VARIABLES
  wpc,          \* position of the worker thread (start_rabbitmq_consumers)
  mpc,          \* position of the main thread
  conn,         \* conn[s]: state of the object's self.connection / channel
  ref,          \* ref[s]: the global (consumer / publisher) is assigned
  attempt,      \* local of the running setup_connection
  slept,        \* seconds slept by the running setup_connection
  rejected,     \* attempts of the running setup_connection that raised
  topoAt,       \* attempt at which a declaration first failed (0: none)
  registered,   \* the four basic_consume calls were made
  inQ,          \* inQ[q]: messages of input queue q not yet settled
  outQ,         \* messages on notifications.delivery
  produced,     \* number of messages published upstream so far
  cur,          \* the delivery on_message is handling
  ev,           \* ev[id]: what happened to message id, in order
  closeLog,     \* connection.close() calls issued, in order
  exitCause,    \* why the worker thread ended
  threadAlive,  \* consumer_thread.is_alive()
  broker,       \* exchanges, queues and bindings declared on the broker
  declPc,       \* declPc[s]: declarations made by the setup of s under way
  setupsDone,   \* setupsDone[s]: setups of s that ran their declarations
  declError     \* a declaration was refused by the broker

\* The state of the process, and the state of the broker's topology.
progVars ==
  <<wpc, mpc, conn, ref, attempt, slept, rejected, topoAt, registered,
    inQ, outQ, produced, cur, ev, closeLog, exitCause, threadAlive>>
topoVars == <<broker, declPc, setupsDone, declError>>

vars == <<progVars, topoVars>>

NoMsg == [q |-> "none", id |-> 0, body |-> Malformed]

MsgIds == 1..MaxMsgs

\* Positions of the worker inside on_message (between delivery and return).
HandlerPcs == {"decode", "publish", "ack", "nack"}

\* The session the worker is operating on at each position: it is inside a
\* blocking pika call on that session (connect and declare, basic_consume,
\* start_consuming, basic_ack, basic_nack, close; basic_publish).
WorkerOn(s) ==
  \/ s = "consumer" /\ wpc \in {"c_try", "register", "consuming", "ack",
                                 "nack", "closing"}
  \/ s = "publisher" /\ wpc \in {"p_try", "publish"}

\* The session the main thread is inside a close() of.
MainOn(s) ==
  \/ s = "consumer" /\ mpc = "closing_c"
  \/ s = "publisher" /\ mpc = "closing_p"

\* The process is running: the daemon worker thread dies with the process.
Alive == mpc # "exited"

\* Thread.is_alive() once the thread's target has ended, whether it returned
\* or raised (the SystemExit of sys.exit(1) included).
AliveAfterRun == FALSE

\* Nothing is declared yet.
TopoInit ==
  /\ broker = EmptyBroker
  /\ declPc = [s \in Sessions |-> 0]
  /\ setupsDone = [s \in Sessions |-> 0]
  /\ declError = FALSE

Init ==
  /\ wpc = "idle"
  /\ mpc = "boot"
  /\ conn = [s \in Sessions |-> "none"]
  /\ ref = [s \in Sessions |-> FALSE]
  /\ attempt = 0
  /\ slept = 0
  /\ rejected = 0
  /\ topoAt = 0
  /\ registered = FALSE
  /\ inQ = [q \in Queues |-> <<>>]
  /\ outQ = <<>>
  /\ produced = 0
  /\ cur = NoMsg
  /\ ev = [i \in MsgIds |-> <<>>]
  /\ closeLog = <<>>
  /\ exitCause = "none"
  /\ threadAlive = FALSE
  /\ TopoInit

(* ------------------------- main thread: startup ------------------------ *)

\* lifespan startup: installs the signal handlers and starts the daemon
\* thread running start_rabbitmq_consumers, whose first statement constructs
\* RabbitMQConsumer() and so enters setup_connection with attempt = 1.
LifespanStart ==
  /\ mpc = "boot"
  /\ mpc' = "serving"
  /\ wpc' = "c_try"
  /\ attempt' = 1
  /\ threadAlive' = TRUE
  /\ UNCHANGED <<conn, ref, slept, rejected, topoAt, registered, inQ,
                 outQ, produced, cur, ev, closeLog, exitCause>>
  /\ UNCHANGED topoVars

(* ---------------------- worker: setup_connection ----------------------- *)

\* What one pass through the try block can do: BlockingConnection raises
\* ("refused"), the connection opens but exchange_declare / queue_declare /
\* queue_bind raises ("topology"), or everything succeeds ("ok").
AttemptOutcomes == {"refused", "topology", "ok"}

\* except Exception: every failure of the try block is handled alike.
Caught(outcome) == outcome \in {"refused", "topology"}

\* Mutant of LastAttempt: the give-up test is off by one.
LastAttemptOffByOne(a) == a = MAX_RETRIES - 1

\* if attempt == MAX_RETRIES: raise
LastAttempt(a) == a = MAX_RETRIES

\* attempt += 1
NextAttempt(a) == a + 1

\* time.sleep(wait) with wait = WAIT_SECONDS
SleepSeconds == WAIT_SECONDS

\* self.connection after a pass: a refused connect leaves the attribute as it
\* was; a topology error leaves a connection whose channel the broker closed.
ConnAfter(old, outcome) ==
  CASE outcome = "ok" -> "open"
    [] outcome = "topology" -> "chan_closed"
    [] outcome = "refused" -> old

\* One iteration of the while loop of setup_connection of session s, up to the
\* return, the raise after the last attempt, or the start of the sleep.
SetupAttempt(s, tryPc, sleepPc, donePc) ==
  /\ Alive
  /\ wpc = tryPc
  /\ IF attempt <= MAX_RETRIES
       THEN \E outcome \in AttemptOutcomes, k \in 0..(Len(Calls(s)) - 1) :
              /\ conn' = [conn EXCEPT ![s] = ConnAfter(conn[s], outcome)]
              /\ broker' = DeclareAll(broker, DeclaredBy(s, outcome, k))
              /\ IF Caught(outcome)
                   THEN /\ rejected' = rejected + 1
                        /\ topoAt' = IF outcome = "topology" /\ topoAt = 0
                                       THEN attempt ELSE topoAt
                        /\ IF LastAttempt(attempt)
                             THEN /\ wpc' = "dead"
                                  /\ exitCause' = "exhausted"
                                  /\ threadAlive' = AliveAfterRun
                             ELSE /\ wpc' = sleepPc
                                  /\ UNCHANGED <<exitCause, threadAlive>>
                   ELSE /\ wpc' = donePc
                        /\ UNCHANGED <<rejected, topoAt, exitCause, threadAlive>>
       ELSE \* the while condition fails: the method falls off its end
            /\ wpc' = donePc
            /\ UNCHANGED <<conn, rejected, topoAt, exitCause, threadAlive,
                           broker>>
  /\ UNCHANGED <<mpc, ref, attempt, slept, registered, inQ, outQ,
                 produced, cur, ev, closeLog>>
  /\ UNCHANGED <<declPc, setupsDone, declError>>

\* The tail of the except block: sleep, then attempt += 1.
SetupSleep(sleepPc, tryPc) ==
  /\ Alive
  /\ wpc = sleepPc
  /\ slept' = slept + SleepSeconds
  /\ attempt' = NextAttempt(attempt)
  /\ wpc' = tryPc
  /\ UNCHANGED <<mpc, conn, ref, rejected, topoAt, registered, inQ, outQ,
                 produced, cur, ev, closeLog, exitCause, threadAlive>>
  /\ UNCHANGED topoVars

ConsumerAttempt == SetupAttempt("consumer", "c_try", "c_sleep", "c_assign")
ConsumerSleep == SetupSleep("c_sleep", "c_try")
PublisherAttempt == SetupAttempt("publisher", "p_try", "p_sleep", "p_assign")
PublisherSleep == SetupSleep("p_sleep", "p_try")

\* Mutant of AssignConsumer: the handlers are registered right after the
\* consumer is constructed, before NotificationPublisher().
AssignConsumerThenRegister ==
  /\ Alive
  /\ wpc = "c_assign"
  /\ ref' = [ref EXCEPT !["consumer"] = TRUE]
  /\ wpc' = "register"
  /\ attempt' = 0
  /\ slept' = 0
  /\ rejected' = 0
  /\ topoAt' = 0
  /\ UNCHANGED <<mpc, conn, registered, inQ, outQ, produced, cur, ev,
                 closeLog, exitCause, threadAlive>>
  /\ UNCHANGED topoVars

\* consumer = RabbitMQConsumer(): the global is bound only once __init__ has
\* returned; NotificationPublisher() then enters its own setup_connection.
AssignConsumer ==
  /\ Alive
  /\ wpc = "c_assign"
  /\ ref' = [ref EXCEPT !["consumer"] = TRUE]
  /\ wpc' = "p_try"
  /\ attempt' = 1
  /\ slept' = 0
  /\ rejected' = 0
  /\ topoAt' = 0
  /\ UNCHANGED <<mpc, conn, registered, inQ, outQ, produced, cur, ev,
                 closeLog, exitCause, threadAlive>>
  /\ UNCHANGED topoVars

\* publisher = NotificationPublisher()
AssignPublisher ==
  /\ Alive
  /\ wpc = "p_assign"
  /\ ref' = [ref EXCEPT !["publisher"] = TRUE]
  /\ wpc' = "register"
  /\ attempt' = 0
  /\ slept' = 0
  /\ rejected' = 0
  /\ topoAt' = 0
  /\ UNCHANGED <<mpc, conn, registered, inQ, outQ, produced, cur, ev,
                 closeLog, exitCause, threadAlive>>
  /\ UNCHANGED topoVars

(* ------------------------------ the broker ----------------------------- *)

\* What a blocking call on a session can do: on an open session it succeeds,
\* or the broker drops the connection or closes the channel under it; on a
\* session that is no longer open pika raises at once.
CallOutcomes(st) ==
  IF st = "open" THEN {"ok", "conn_lost", "chan_closed"} ELSE {"raise"}

\* The session after a call with that outcome.
After(st, outcome) ==
  CASE outcome = "conn_lost" -> "closed"
    [] outcome = "chan_closed" -> "chan_closed"
    [] OTHER -> st

\* connection.is_closed is false: a connection was made and is not closed.
NotClosed(st) == st \notin {"none", "closed"}

\* Mutant of Settle: the settlement is sent with multiple=True and takes
\* every delivery up to that one with it, on every queue of the channel.
SettleMultiple(Q, q, id) ==
  [qq \in DOMAIN Q |-> SelectSeq(Q[qq], LAMBDA m : m.id > id)]

\* The broker settles one delivery (multiple=False): the message with that
\* delivery leaves its queue, every other message stays.
Settle(Q, q, id) ==
  [Q EXCEPT ![q] = SelectSeq(Q[q], LAMBDA m : m.id # id)]

\* An upstream producer publishes body b under the routing key of queue q.
\* A message that arrives earlier waits on its durable queue until
\* start_consuming dispatches it, so arrivals are taken from registration on,
\* and only while a worker is there to receive them.
Produce(q, b) ==
  /\ Alive
  /\ registered
  /\ wpc # "dead"
  /\ produced < MaxMsgs
  /\ produced' = produced + 1
  /\ inQ' = [inQ EXCEPT ![q] = Append(inQ[q], [id |-> produced + 1, body |-> b])]
  /\ UNCHANGED <<wpc, mpc, conn, ref, attempt, slept, rejected, topoAt,
                 registered, outQ, cur, ev, closeLog, exitCause, threadAlive>>
  /\ UNCHANGED topoVars

(* --------------------- worker: register and consume -------------------- *)

\* consumer.consume_usuarios(...) ... consume_password_updated(...), then
\* consumer.start_consuming(): the four basic_consume calls. A call that
\* raises leaves start_rabbitmq_consumers through except Exception.
Register ==
  /\ Alive
  /\ wpc = "register"
  /\ \E outcome \in CallOutcomes(conn["consumer"]) :
       /\ conn' = [conn EXCEPT !["consumer"] = After(conn["consumer"], outcome)]
       /\ IF outcome = "ok"
            THEN /\ registered' = TRUE
                 /\ wpc' = "consuming"
                 /\ UNCHANGED <<exitCause, threadAlive>>
            ELSE /\ wpc' = "dead"
                 /\ exitCause' = "error"
                 /\ threadAlive' = AliveAfterRun
                 /\ UNCHANGED registered
  /\ UNCHANGED <<mpc, ref, attempt, slept, rejected, topoAt, inQ, outQ,
                 produced, cur, ev, closeLog>>
  /\ UNCHANGED topoVars

\* Mutant of Deliver: the newest message of the queue is dispatched first.
DeliverNewest(q) ==
  /\ Alive
  /\ wpc = "consuming"
  /\ conn["consumer"] = "open"
  /\ inQ[q] # <<>>
  /\ cur' = [q |-> q, id |-> inQ[q][Len(inQ[q])].id,
                      body |-> inQ[q][Len(inQ[q])].body]
  /\ wpc' = "decode"
  /\ UNCHANGED <<mpc, conn, ref, attempt, slept, rejected, topoAt,
                 registered, inQ, outQ, produced, ev, closeLog, exitCause,
                 threadAlive>>
  /\ UNCHANGED topoVars

\* channel.start_consuming() dispatches the next delivery of queue q to the
\* on_message registered for q; the message stays unsettled on its queue.
Deliver(q) ==
  /\ Alive
  /\ wpc = "consuming"
  /\ conn["consumer"] = "open"
  /\ inQ[q] # <<>>
  /\ cur' = [q |-> q, id |-> Head(inQ[q]).id, body |-> Head(inQ[q]).body]
  /\ wpc' = "decode"
  /\ UNCHANGED <<mpc, conn, ref, attempt, slept, rejected, topoAt,
                 registered, inQ, outQ, produced, ev, closeLog, exitCause, threadAlive>>
  /\ UNCHANGED topoVars

Log(id, e) == [ev EXCEPT ![id] = Append(ev[id], e)]

\* on_message up to callback(event): json.loads and the pydantic constructor.
\* On success the handle_* callback builds the notification and calls
\* publish_notification; on failure control goes to the except block.
Decode ==
  /\ Alive
  /\ wpc = "decode"
  /\ IF DecodeOK(cur.q, cur.body)
       THEN /\ ev' = Log(cur.id, DecodeEvent(cur.q, cur.body))
            /\ wpc' = "publish"
       ELSE /\ ev' = Log(cur.id, DecodeEvent(cur.q, cur.body))
            /\ wpc' = "nack"
  /\ UNCHANGED <<mpc, conn, ref, attempt, slept, rejected, topoAt,
                 registered, inQ, outQ, produced, cur, closeLog, exitCause, threadAlive>>
  /\ UNCHANGED topoVars

\* handle_*: "except Exception as e: logger.error(...)": the RuntimeError of
\* publish_notification does not leave the callback.
PublishErrorPropagates == FALSE

\* Mutant of AfterCallback: the outcome of the callback is read the wrong way
\* round.
AfterCallbackInverted(published) ==
  IF published THEN "nack" ELSE "ack"

\* Where on_message continues once callback(event) is over.
AfterCallback(published) ==
  IF published \/ ~PublishErrorPropagates THEN "ack" ELSE "nack"

\* The handle_* callback: create_*_notification, then publish_notification,
\* whose basic_publish returns or raises (re-raised as RuntimeError).
Publish ==
  /\ Alive
  /\ wpc = "publish"
  /\ \E outcome \in CallOutcomes(conn["publisher"]) :
       /\ conn' = [conn EXCEPT !["publisher"] = After(conn["publisher"], outcome)]
       /\ IF outcome = "ok"
            THEN /\ outQ' = Append(outQ, Published(cur, Now(cur.id)))
                 /\ ev' = Log(cur.id, "publish_ok")
            ELSE /\ ev' = Log(cur.id, "publish_fail")
                 /\ UNCHANGED outQ
       /\ wpc' = AfterCallback(outcome = "ok")
  /\ UNCHANGED <<mpc, ref, attempt, slept, rejected, topoAt, registered,
                 inQ, produced, cur, closeLog, exitCause, threadAlive>>
  /\ UNCHANGED topoVars

\* ch.basic_ack(delivery_tag=method.delivery_tag), inside the try block: when
\* it raises, the except block runs.
Ack ==
  /\ Alive
  /\ wpc = "ack"
  /\ \E outcome \in CallOutcomes(conn["consumer"]) :
       /\ conn' = [conn EXCEPT !["consumer"] = After(conn["consumer"], outcome)]
       /\ IF outcome = "ok"
            THEN /\ ev' = Log(cur.id, "ack_ok")
                 /\ inQ' = Settle(inQ, cur.q, cur.id)
                 /\ wpc' = "consuming"
                 /\ cur' = NoMsg
            ELSE /\ ev' = Log(cur.id, "ack_fail")
                 /\ wpc' = "nack"
                 /\ UNCHANGED <<inQ, cur>>
  /\ UNCHANGED <<mpc, ref, attempt, slept, rejected, topoAt, registered,
                 outQ, produced, closeLog, exitCause, threadAlive>>
  /\ UNCHANGED topoVars

\* Mutant of NackRequeue: the rejected message is put back on its queue.
NackRequeueTrue == TRUE

\* The requeue argument of basic_nack.
NackRequeue == FALSE

\* The event a successful basic_nack leaves in the log.
NackEvent == IF NackRequeue THEN "nack_requeue" ELSE "nack_ok"

\* Mutant of Nack: a basic_nack that raises is swallowed and on_message
\* returns to the loop, the delivery left unsettled.
NackFailureSwallowed ==
  /\ Alive
  /\ wpc = "nack"
  /\ \E outcome \in CallOutcomes(conn["consumer"]) :
       /\ conn' = [conn EXCEPT !["consumer"] = After(conn["consumer"], outcome)]
       /\ IF outcome = "ok"
            THEN /\ ev' = Log(cur.id, NackEvent)
                 /\ inQ' = IF NackRequeue THEN inQ ELSE Settle(inQ, cur.q, cur.id)
            ELSE /\ ev' = Log(cur.id, "nack_fail")
                 /\ UNCHANGED inQ
       /\ wpc' = "consuming"
       /\ cur' = NoMsg
  /\ UNCHANGED <<mpc, ref, attempt, slept, rejected, topoAt, registered,
                 outQ, produced, closeLog, exitCause, threadAlive>>
  /\ UNCHANGED topoVars

\* ch.basic_nack(delivery_tag=..., requeue=False) in the except block of
\* on_message; when it raises, the exception leaves on_message and reaches
\* the except Exception of RabbitMQConsumer.start_consuming.
Nack ==
  /\ Alive
  /\ wpc = "nack"
  /\ \E outcome \in CallOutcomes(conn["consumer"]) :
       /\ conn' = [conn EXCEPT !["consumer"] = After(conn["consumer"], outcome)]
       /\ IF outcome = "ok"
            THEN /\ ev' = Log(cur.id, NackEvent)
                 /\ inQ' = IF NackRequeue THEN inQ ELSE Settle(inQ, cur.q, cur.id)
                 /\ wpc' = "consuming"
                 /\ cur' = NoMsg
            ELSE /\ ev' = Log(cur.id, "nack_fail")
                 /\ wpc' = "closing"
                 /\ UNCHANGED <<inQ, cur>>
  /\ UNCHANGED <<mpc, ref, attempt, slept, rejected, topoAt, registered,
                 outQ, produced, closeLog, exitCause, threadAlive>>
  /\ UNCHANGED topoVars

\* channel.start_consuming() ends while no callback is running (the
\* KeyboardInterrupt branch is never taken: Python raises it on the main
\* thread only, and lifespan replaces the SIGINT handler): the broker
\* fails the open session and it raises; or the main thread has closed the
\* session under it, and it raises or returns (the session is not safe for
\* use from two threads, so either can happen).
LoopEnds ==
  /\ Alive
  /\ wpc = "consuming"
  /\ IF conn["consumer"] = "open"
       THEN /\ \E fault \in {"conn_lost", "chan_closed"} :
                 conn' = [conn EXCEPT !["consumer"] = After("open", fault)]
            /\ wpc' = "closing"
            /\ UNCHANGED <<exitCause, threadAlive>>
       ELSE /\ \E raises \in BOOLEAN :
                 IF raises
                   THEN wpc' = "closing" /\ UNCHANGED <<exitCause, threadAlive>>
                   ELSE /\ wpc' = "dead"
                        /\ exitCause' = "returned"
                        /\ threadAlive' = AliveAfterRun
            /\ UNCHANGED conn
  /\ UNCHANGED <<mpc, ref, attempt, slept, rejected, topoAt, registered,
                 inQ, outQ, produced, cur, ev, closeLog>>
  /\ UNCHANGED topoVars

\* Mutant of WorkerClose: the failure is retried in place, the consumer
\* connecting again instead of closing and raising.
WorkerCloseReconnects ==
  /\ Alive
  /\ wpc = "closing"
  /\ wpc' = "c_try"
  /\ attempt' = 1
  /\ UNCHANGED <<mpc, conn, ref, slept, rejected, topoAt, registered,
                 inQ, outQ, produced, cur, ev, closeLog, exitCause, threadAlive>>
  /\ UNCHANGED topoVars

\* start_consuming's "except Exception: self.close(); raise", then the
\* except Exception of start_rabbitmq_consumers: sys.exit(1) on the worker
\* thread, which ends that thread only.
WorkerClose ==
  /\ Alive
  /\ wpc = "closing"
  /\ IF NotClosed(conn["consumer"])
       THEN /\ closeLog' = Append(closeLog, [s |-> "consumer", by |-> "worker"])
            /\ conn' = [conn EXCEPT !["consumer"] = "closed"]
       ELSE UNCHANGED <<closeLog, conn>>
  /\ wpc' = "dead"
  /\ exitCause' = "error"
  /\ threadAlive' = AliveAfterRun
  /\ UNCHANGED <<mpc, ref, attempt, slept, rejected, topoAt, registered,
                 inQ, outQ, produced, cur, ev>>
  /\ UNCHANGED topoVars

(* ------------------------ main thread: shutdown ------------------------ *)

\* SIGINT / SIGTERM: signal_handler starts on the main thread.
Signal ==
  /\ mpc = "serving"
  /\ mpc' = "close_c"
  /\ UNCHANGED <<wpc, conn, ref, attempt, slept, rejected, topoAt, registered,
                 inQ, outQ, produced, cur, ev, closeLog, exitCause, threadAlive>>
  /\ UNCHANGED topoVars

\* Application shutdown: lifespan resumes after its yield.
LifespanShutdown ==
  /\ mpc = "serving"
  /\ mpc' = "close_c"
  /\ UNCHANGED <<wpc, conn, ref, attempt, slept, rejected, topoAt, registered,
                 inQ, outQ, produced, cur, ev, closeLog, exitCause, threadAlive>>
  /\ UNCHANGED topoVars

\* Mutant of CloseOrder: the two closes are written the other way round.
CloseOrderSwapped == <<"publisher", "consumer">>

\* The order in which both shutdown paths close the two objects.
CloseOrder == <<"consumer", "publisher">>

\* "if consumer: consumer.close()": the global is bound, and close() finds a
\* connection that is not closed and calls connection.close() on it.
WillClose(s) == ref[s] /\ NotClosed(conn[s])

\* The main thread reaches the k-th close of the shutdown sequence and either
\* calls connection.close() or skips it.
MainCloseCall(k, atPc, inPc, nextPc) ==
  /\ mpc = atPc
  /\ IF WillClose(CloseOrder[k])
       THEN /\ closeLog' = Append(closeLog, [s |-> CloseOrder[k], by |-> "main"])
            /\ mpc' = inPc
       ELSE /\ mpc' = nextPc
            /\ UNCHANGED closeLog
  /\ UNCHANGED <<wpc, conn, ref, attempt, slept, rejected, topoAt,
                 registered, inQ, outQ, produced, cur, ev, exitCause, threadAlive>>
  /\ UNCHANGED topoVars

\* connection.close() returns on the main thread. When the worker thread is
\* operating on the same session the call races with it: it closes the
\* connection, or raises (caught and logged by close()) and leaves it as it is.
MainCloseReturn(k, inPc, nextPc) ==
  /\ mpc = inPc
  /\ \E done \in (IF WorkerOn(CloseOrder[k]) THEN BOOLEAN ELSE {TRUE}) :
       conn' = [conn EXCEPT ![CloseOrder[k]] = IF done THEN "closed" ELSE @]
  /\ mpc' = nextPc
  /\ UNCHANGED <<wpc, ref, attempt, slept, rejected, topoAt, registered,
                 inQ, outQ, produced, cur, ev, closeLog, exitCause, threadAlive>>
  /\ UNCHANGED topoVars

CloseFirstCall == MainCloseCall(1, "close_c", "closing_c", "close_p")
CloseFirstReturn == MainCloseReturn(1, "closing_c", "close_p")
CloseSecondCall == MainCloseCall(2, "close_p", "closing_p", "exit")
CloseSecondReturn == MainCloseReturn(2, "closing_p", "exit")

\* sys.exit(0) at the end of signal_handler, or the end of lifespan: the
\* process ends and the daemon worker thread with it.
MainExit ==
  /\ mpc = "exit"
  /\ mpc' = "exited"
  /\ UNCHANGED <<wpc, conn, ref, attempt, slept, rejected, topoAt,
                 registered, inQ, outQ, produced, cur, ev, closeLog, exitCause, threadAlive>>
  /\ UNCHANGED topoVars

(* ------------------------------ HTTP surface --------------------------- *)

\* GET /health while the server runs: always "healthy".
health == IF mpc \in {"serving"} THEN "healthy" ELSE "down"

\* consumer_thread is None until lifespan has created the thread.
consumer_thread == IF mpc = "boot" THEN "None" ELSE "Thread"

\* Mutant of consumer_running: the metric reports that the thread was
\* created, not that it is alive.
consumer_running_ThreadCreated == consumer_thread # "None"

\* GET /metrics: consumer_thread.is_alive() if consumer_thread else False.
consumer_running ==
  IF consumer_thread # "None" THEN threadAlive ELSE FALSE

(* --------------------------- the specification ------------------------- *)

Next ==
  \/ LifespanStart
  \/ ConsumerAttempt
  \/ ConsumerSleep
  \/ AssignConsumer
  \/ PublisherAttempt
  \/ PublisherSleep
  \/ AssignPublisher
  \/ Register
  \/ \E q \in Queues, b \in Bodies : Produce(q, b)
  \/ \E q \in Queues : Deliver(q)
  \/ Decode
  \/ Publish
  \/ Ack
  \/ Nack
  \/ LoopEnds
  \/ WorkerClose
  \/ Signal
  \/ LifespanShutdown
  \/ CloseFirstCall
  \/ CloseFirstReturn
  \/ CloseSecondCall
  \/ CloseSecondReturn
  \/ MainExit

Spec == Init /\ [][Next]_vars

(* ----------------------- shutdown by signal only ----------------------- *)

\* The process as in Next, the application never shutting down of itself:
\* the main thread leaves "serving" through signal_handler only.
SignalNext ==
  \/ LifespanStart
  \/ ConsumerAttempt
  \/ ConsumerSleep
  \/ AssignConsumer
  \/ PublisherAttempt
  \/ PublisherSleep
  \/ AssignPublisher
  \/ Register
  \/ \E q \in Queues, b \in Bodies : Produce(q, b)
  \/ \E q \in Queues : Deliver(q)
  \/ Decode
  \/ Publish
  \/ Ack
  \/ Nack
  \/ LoopEnds
  \/ WorkerClose
  \/ Signal
  \/ CloseFirstCall
  \/ CloseFirstReturn
  \/ CloseSecondCall
  \/ CloseSecondReturn
  \/ MainExit

SignalSpec == Init /\ [][SignalNext]_vars

(* ------------------ the consume phase on varied payloads --------------- *)

\* Who the producers write about: the usuarioId is a string, a string of
\* digits, or a JSON number.
People ==
  {[usuarioId |-> "u1", email |-> "a@b.com", nombre |-> "Ana"],
   [usuarioId |-> "7", email |-> "c@d.org", nombre |-> "Luis"],
   [usuarioId |-> "#42", email |-> "e@f.net", nombre |-> "Eva"]}

\* The timestamps they write: two that pydantic reads, one it does not.
TimeInputs == {"2024-01-01 10:00:00", "2024-01-02T11:30:00", "ayer"}

\* An optional key is left out, null, empty, or given a value of its own.
OptionalChoices == {"absent", "null", "empty", "value"}

SampleOf(k) ==
  CASE k = "activationToken" -> "tok-1"
    [] k = "baseUrl" -> "https://app.example"
    [] k = "ipAddress" -> "10.0.0.1"
    [] k = "userAgent" -> "Firefox"
    [] k = "deviceInfo" -> "Laptop"
    [] k = "location" -> "Cali"

OptionalValue(k, c) ==
  CASE c = "absent" -> Absent
    [] c = "null" -> Null
    [] c = "empty" -> ""
    [] c = "value" -> SampleOf(k)

\* The bodies a producer of queue q's events can send: every required key
\* of the variant, and each optional key in each of its four ways.
VariantBodies(q) ==
  {[wellformed |-> TRUE,
    obj |-> [k \in AllKeys |->
               IF k \in {"usuarioId", "email", "nombre"} THEN p[k]
               ELSE IF k = "token" /\ k \in Required(q) THEN "XYZ"
               ELSE IF k \in Required(q) THEN ts
               ELSE IF k \in Optional(q) THEN OptionalValue(k, c[k])
               ELSE Absent]] :
     p \in People, ts \in TimeInputs, c \in [Optional(q) -> OptionalChoices]}

\* The worker is in the consume loop on two open sessions and delivery
\* number id waits on queue q; the deliveries before it were not JSON and
\* were dropped.
PipelineInit ==
  \E q \in Queues, id \in MsgIds :
    \E b \in Bodies \cup VariantBodies(q) :
      /\ wpc = "consuming"
      /\ mpc = "serving"
      /\ conn = [s \in Sessions |-> "open"]
      /\ ref = [s \in Sessions |-> TRUE]
      /\ attempt = 0
      /\ slept = 0
      /\ rejected = 0
      /\ topoAt = 0
      /\ registered = TRUE
      /\ inQ = [qq \in Queues |->
                  IF qq = q THEN <<[id |-> id, body |-> b]>> ELSE <<>>]
      /\ outQ = <<>>
      /\ produced = id
      /\ cur = NoMsg
      /\ ev = [i \in MsgIds |-> IF i < id THEN <<"json_fail", "nack_ok">> ELSE <<>>]
      /\ closeLog = <<>>
      /\ exitCause = "none"
      /\ threadAlive = TRUE
      /\ broker = DeclareAll(DeclareAll(EmptyBroker, ConsumerCalls), PublisherCalls)
      /\ declPc = [s \in Sessions |-> 0]
      /\ setupsDone = [s \in Sessions |-> 0]
      /\ declError = FALSE

PipelineNext ==
  \/ \E q \in Queues : Deliver(q)
  \/ Decode
  \/ Publish
  \/ Ack
  \/ Nack
  \/ LoopEnds
  \/ WorkerClose

PipelineSpec == PipelineInit /\ [][PipelineNext]_vars

(* ------------------- the consume loop under fairness ------------------- *)

\* The worker is in the consume loop on two open sessions, the server is up,
\* and delivery number id waits on queue q; the deliveries before it were not
\* JSON and were dropped.
ConsumeInit ==
  \E q \in Queues, id \in MsgIds, b \in Bodies :
    /\ wpc = "consuming"
    /\ mpc = "serving"
    /\ conn = [s \in Sessions |-> "open"]
    /\ ref = [s \in Sessions |-> TRUE]
    /\ attempt = 0
    /\ slept = 0
    /\ rejected = 0
    /\ topoAt = 0
    /\ registered = TRUE
    /\ inQ = [qq \in Queues |->
                IF qq = q THEN <<[id |-> id, body |-> b]>> ELSE <<>>]
    /\ outQ = <<>>
    /\ produced = id
    /\ cur = NoMsg
    /\ ev = [i \in MsgIds |-> IF i < id THEN <<"json_fail", "nack_ok">> ELSE <<>>]
    /\ closeLog = <<>>
    /\ exitCause = "none"
    /\ threadAlive = TRUE
    /\ broker = DeclareAll(DeclareAll(EmptyBroker, ConsumerCalls), PublisherCalls)
    /\ declPc = [s \in Sessions |-> 0]
    /\ setupsDone = [s \in Sessions |-> 0]
    /\ declError = FALSE

\* The consume loop and the shutdown that may come while it runs.
ConsumeNext ==
  \/ \E q \in Queues : Deliver(q)
  \/ Decode
  \/ Publish
  \/ Ack
  \/ Nack
  \/ LoopEnds
  \/ WorkerClose
  \/ Signal
  \/ LifespanShutdown
  \/ CloseFirstCall
  \/ CloseFirstReturn
  \/ CloseSecondCall
  \/ CloseSecondReturn
  \/ MainExit

\* The worker thread is scheduled as long as the process lives, and every
\* blocking call it makes (basic_publish, basic_ack, basic_nack, close)
\* returns or raises: each step of on_message, and the close after a failed
\* loop, is taken once it can be. Nothing obliges the broker to fail, a
\* signal to come, or the main thread to finish a shutdown it has begun.
ConsumeFairness ==
  /\ WF_vars(Decode)
  /\ WF_vars(Publish)
  /\ WF_vars(Ack)
  /\ WF_vars(Nack)
  /\ WF_vars(WorkerClose)

FairConsumeSpec == ConsumeInit /\ [][ConsumeNext]_vars /\ ConsumeFairness

(* ----------------------- declaring the topology ------------------------ *)

\* A setup of session s makes its next declaration. A refused declaration
\* raises and ends the pass through the try block; the last declaration
\* ends the setup. Setups of the two sessions, of this process or of
\* another instance of it, may be under way at once.
Declare(s) ==
  /\ setupsDone[s] < MaxSetups
  /\ LET c == Calls(s)[declPc[s] + 1]
     IN IF Refused(broker, c)
          THEN /\ declError' = TRUE
               /\ declPc' = [declPc EXCEPT ![s] = 0]
               /\ setupsDone' = [setupsDone EXCEPT ![s] = @ + 1]
               /\ UNCHANGED broker
          ELSE /\ broker' = Declared(broker, c)
               /\ IF declPc[s] + 1 = Len(Calls(s))
                    THEN /\ declPc' = [declPc EXCEPT ![s] = 0]
                         /\ setupsDone' = [setupsDone EXCEPT ![s] = @ + 1]
                    ELSE /\ declPc' = [declPc EXCEPT ![s] = @ + 1]
                         /\ UNCHANGED setupsDone
               /\ UNCHANGED declError
  /\ UNCHANGED progVars

ConsumerDeclare == Declare("consumer")
PublisherDeclare == Declare("publisher")

TopologyNext == ConsumerDeclare \/ PublisherDeclare

TopologySpec == Init /\ [][TopologyNext]_vars

(* ------------------------------- helpers ------------------------------- *)

\* Event e is in a message's log.
In(log, e) == \E i \in DOMAIN log : log[i] = e

\* Event e is in the log of message id.
Has(id, e) == In(ev[id], e)

\* The events of the two settlement calls.
AckEvents == {"ack_ok", "ack_fail"}
NackEvents == {"nack_ok", "nack_requeue", "nack_fail"}

\* A step of the worker thread inside on_message (every such step moves wpc;
\* the producers and the main thread never do).
HandlerStep == wpc \in HandlerPcs /\ wpc' # wpc

\* Notifications on the output queue that came from message id.
PublishedFor(id) == {i \in DOMAIN outQ : outQ[i].src = id}

(* ------------------------------- C1 ------------------------------------ *)

\* C1 (as claimed): a message that decoded but whose publish_notification
\* call failed is never acknowledged: no basic_ack is issued for it, and the
\* settlement issued once the callback is over is a basic_nack.
C1_PublishFailureIsNacked ==
  \A id \in MsgIds :
    Has(id, "publish_fail") =>
      /\ \A e \in AckEvents : ~Has(id, e)
      /\ (cur.id = id => wpc # "ack")

(* ------------------------------- C2 ------------------------------------ *)

\* What the log of a message that failed to decode may hold: the failure,
\* then at most one basic_nack, issued with requeue=False.
DecodeFailures == {"json_fail", "validation_fail"}

C2_DecodeFailureLogs ==
  UNION {{<<f>>, <<f, "nack_ok">>, <<f, "nack_fail">>} : f \in DecodeFailures}

C2_Inv ==
  \A id \in MsgIds :
    (\E f \in DecodeFailures : Has(id, f)) =>
      /\ ev[id] \in C2_DecodeFailureLogs
      /\ PublishedFor(id) = {}
      /\ (Len(ev[id]) = 1 => cur.id = id /\ wpc = "nack")
      /\ (cur.id = id => ~DecodeOK(cur.q, cur.body))

C2_Step ==
  (wpc = "nack" /\ ~DecodeOK(cur.q, cur.body) /\ In(ev'[cur.id], "nack_ok"))
    => /\ wpc' = "consuming"
       /\ conn'["consumer"] = "open"
       /\ registered'

\* C2: for a message that is malformed JSON or lacks a required field of its
\* queue's variant, the only call issued is basic_nack with requeue=False,
\* nothing is published for it, and when that call returns the consumer is
\* back in the consume loop on an open session with its callbacks registered.
C2_DecodeFailureNackedLoopContinues == []C2_Inv /\ [][C2_Step]_vars

\* A message that failed to decode was nacked, and the consumer is now
\* about to acknowledge another message it handled after that one.
C2_Witness ==
  \E i, j \in MsgIds :
    /\ i # j
    /\ ev[i] = <<"validation_fail", "nack_ok">>
    /\ cur.id = j
    /\ wpc = "ack"
    /\ Has(j, "publish_ok")

(* ------------------------------- C3 ------------------------------------ *)

\* C3: for a message that decoded and whose publish succeeded, basic_ack is
\* the call issued next, after publish_notification has returned; once that
\* basic_ack has gone through nothing else is issued for the message, and no
\* basic_nack ever takes effect for it.
C3_AckAfterSuccessfulPublish ==
  \A id \in MsgIds :
    /\ Has(id, "publish_ok") =>
         /\ Len(ev[id]) >= 2
         /\ ev[id][1] = "decode_ok"
         /\ ev[id][2] = "publish_ok"
         /\ (Len(ev[id]) = 2 => cur.id = id /\ wpc = "ack")
         /\ (Len(ev[id]) >= 3 => ev[id][3] \in AckEvents)
         /\ (Has(id, "ack_ok") => ev[id] = <<"decode_ok", "publish_ok", "ack_ok">>)
         /\ ~Has(id, "nack_ok")
         /\ ~Has(id, "nack_requeue")
         /\ Cardinality(PublishedFor(id)) = 1
    /\ \A i \in DOMAIN ev[id] :
         ev[id][i] \in AckEvents =>
           i > 1 /\ ev[id][i - 1] \in {"publish_ok", "publish_fail"}

\* A published message was acknowledged and left its queue.
C3_Witness ==
  \E id \in MsgIds :
    /\ ev[id] = <<"decode_ok", "publish_ok", "ack_ok">>
    /\ \A q \in Queues : \A i \in DOMAIN inQ[q] : inQ[q][i].id # id
    /\ wpc = "consuming"

(* ------------------------------- C4 ------------------------------------ *)

\* C4: every step of on_message on a message that fails JSON parsing leaves
\* the other three input queues and the output queue as they are, and the
\* basic_nack that goes through removes exactly that message from its queue.
C4_MalformedJsonFrame ==
  [][(HandlerStep /\ ~JsonLoads(cur.body)) =>
       /\ outQ' = outQ
       /\ \A q \in Queues \ {cur.q} : inQ'[q] = inQ[q]
       /\ IF In(ev'[cur.id], "nack_ok")
            THEN /\ Head(inQ[cur.q]).id = cur.id
                 /\ inQ'[cur.q] = Tail(inQ[cur.q])
                 /\ Len(inQ'[cur.q]) = Len(inQ[cur.q]) - 1
            ELSE inQ'[cur.q] = inQ[cur.q]]_vars

\* A message that was not JSON has been dropped, alone: the other message
\* produced is still on its input queue.
C4_Witness ==
  \E id \in MsgIds :
    /\ ev[id] = <<"json_fail", "nack_ok">>
    /\ cur = NoMsg
    /\ \A q \in Queues : \A i \in DOMAIN inQ[q] : inQ[q][i].id # id
    /\ \E q \in Queues : Len(inQ[q]) = 1 /\ JsonLoads(inQ[q][1].body)

(* ------------------------------- C5 ------------------------------------ *)

\* The session whose setup_connection the worker is in or has just left.
SetupSession == IF wpc \in {"c_try", "c_sleep", "c_assign"} THEN "consumer" ELSE "publisher"

\* C5: when setup_connection returns, it does so on attempt N+1 after N < 20
\* rejected attempts, with an open connection and channel, having slept
\* WAIT_SECONDS once between consecutive attempts; and it raises only when all
\* MAX_RETRIES attempts were rejected.
C5_ConnectsOnAttemptAfterRejections ==
  /\ wpc \in {"c_assign", "p_assign"} =>
       /\ rejected < MAX_RETRIES
       /\ attempt = rejected + 1
       /\ slept = WAIT_SECONDS * rejected
       /\ conn[SetupSession] = "open"
       /\ exitCause = "none"
  /\ wpc \in {"c_try", "p_try"} =>
       /\ attempt = rejected + 1
       /\ slept = WAIT_SECONDS * rejected
  /\ exitCause = "exhausted" => rejected = MAX_RETRIES

\* The broker rejected 19 attempts and accepted the 20th.
C5_Witness ==
  /\ wpc \in {"c_assign", "p_assign"}
  /\ rejected = MAX_RETRIES - 1
  /\ conn[SetupSession] = "open"

(* ------------------------------- C6 ------------------------------------ *)

\* C6 (as claimed): when all 20 attempts were rejected, exactly 20 attempts
\* were made with 19 delays, nothing was registered or consumed, and the
\* process is not left running and answering "healthy".
C6_ExhaustionAbortsProcess ==
  exitCause = "exhausted" =>
    /\ rejected = MAX_RETRIES
    /\ attempt = MAX_RETRIES
    /\ slept = WAIT_SECONDS * (MAX_RETRIES - 1)
    /\ ~registered
    /\ \A id \in MsgIds : ev[id] = <<>>
    /\ health # "healthy"

(* ------------------------------- C7 ------------------------------------ *)

\* C7 (as claimed): once a declaration has failed in an attempt, that attempt
\* is the last one: the worker ends there and no later attempt is made.
C7_TopologyErrorIsNotRetried ==
  topoAt # 0 => attempt = topoAt /\ wpc = "dead"

(* ------------------------------- C8 ------------------------------------ *)

\* The connection.close() calls issued by thread t, in order.
ClosesBy(t) == SelectSeq(closeLog, LAMBDA c : c.by = t)

\* In log, no close of session b comes before a close of session a.
ClosedBefore(log, a, b) ==
  \A i, j \in DOMAIN log : (log[i].s = a /\ log[j].s = b) => i < j

\* C8 (as claimed): in every execution the publisher's close precedes the
\* consumer's.
C8_PublisherClosedBeforeConsumer ==
  ClosedBefore(closeLog, "publisher", "consumer")

\* C8 (amended): the shutdown path closes the consumer's connection before
\* the publisher's: of the closes the main thread issues, the consumer's comes
\* first, at most one is issued per session, and the publisher's connection is
\* closed by nobody else and never while the main thread is still at the
\* consumer's close.
C8_ConsumerClosedBeforePublisher ==
  /\ ClosedBefore(ClosesBy("main"), "consumer", "publisher")
  /\ ClosesBy("main") \in
       {<<>>,
        <<[s |-> "consumer", by |-> "main"]>>,
        <<[s |-> "publisher", by |-> "main"]>>,
        <<[s |-> "consumer", by |-> "main"], [s |-> "publisher", by |-> "main"]>>}
  /\ \A i \in DOMAIN closeLog :
       (closeLog[i].s = "publisher") => closeLog[i].by = "main"
  /\ mpc \in {"boot", "serving", "close_c", "closing_c"} =>
       \A i \in DOMAIN closeLog : closeLog[i].s # "publisher"

\* Shutdown closed both sessions from the main thread.
C8_Witness ==
  /\ mpc \in {"exit", "exited"}
  /\ closeLog = <<[s |-> "consumer", by |-> "main"], [s |-> "publisher", by |-> "main"]>>

(* ------------------------------- C9 ------------------------------------ *)

\* C9 (as claimed): while on_message is running no connection.close() has
\* been issued on either session and the process has not been ended.
C9_HandlerCompletesBeforeClose ==
  wpc \in HandlerPcs => closeLog = <<>> /\ mpc \notin {"exit", "exited"}

(* ------------------------------- C10 ----------------------------------- *)

\* C10 (as claimed): the worker thread and the main thread are never inside
\* an operation on the same session at once.
C10_OneThreadPerSession ==
  \A s \in Sessions : ~(WorkerOn(s) /\ MainOn(s))

(* ------------------------------- C11 ----------------------------------- *)

\* The consumer's session has failed under the registered consumer.
ConsumerFailed == registered /\ conn["consumer"] \in {"closed", "chan_closed"}

C11_Inv ==
  /\ wpc = "closing" => conn["consumer"] # "open"
  /\ (exitCause = "error" /\ registered) =>
       wpc = "dead" /\ conn["consumer"] = "closed"

C11_Step ==
  \* once out of the consume loop the worker never goes back into it
  /\ wpc \in {"closing", "dead"} => wpc' \in {"closing", "dead"}
  \* a failed session is never opened again
  /\ ConsumerFailed => conn'["consumer"] # "open" /\ registered'
  \* a session that fails under a call of the worker takes the worker out
  \* of the loop: at once, or through the basic_nack that raises next
  /\ (registered /\ conn["consumer"] = "open" /\ conn'["consumer"] # "open"
        /\ wpc' # wpc) => wpc' \in {"nack", "closing"}
  /\ (wpc = "nack" /\ conn["consumer"] # "open" /\ wpc' # wpc) => wpc' = "closing"
  \* and nothing is delivered on a failed session
  /\ (cur' # cur /\ cur' # NoMsg) => wpc = "consuming" /\ ~ConsumerFailed

\* C11: a broker failure on the consumer's session after setup ends the
\* consume loop and ends the worker with an error; the worker never connects
\* again, never re-enters the loop, and no further message is delivered.
C11_SteadyStateFailureIsFatal == []C11_Inv /\ [][C11_Step]_vars

\* The session failed while consuming and the worker ended with an error,
\* leaving a produced message undelivered on its queue.
C11_Witness ==
  /\ exitCause = "error"
  /\ registered
  /\ wpc = "dead"
  /\ closeLog = <<>>
  /\ \E q \in Queues : inQ[q] # <<>> /\ ev[inQ[q][1].id] = <<>>

(* ------------------------------- C12 ----------------------------------- *)

\* The worker is inside setup_connection (consumer's or publisher's), or
\* binding the globals and registering the callbacks that follow it.
Connecting ==
  wpc \in {"c_try", "c_sleep", "c_assign", "p_try", "p_sleep", "p_assign",
           "register"}

\* The worker is in the consume loop, a callback running or not.
Consuming == wpc \in {"consuming"} \cup HandlerPcs

\* C12: while the process runs, consumer_running is false once the worker
\* has ended (retries exhausted, a steady-state failure, or the loop having
\* returned), and true while the worker is connecting or consuming.
C12_ConsumerRunningTracksWorker ==
  Alive =>
    /\ wpc = "dead" => ~consumer_running
    /\ exitCause # "none" => ~consumer_running
    /\ (Connecting \/ Consuming) => consumer_running
    /\ wpc = "idle" => ~consumer_running

\* The retries were exhausted, the server is still serving, and the metric
\* reads false.
C12_Witness ==
  /\ exitCause = "exhausted"
  /\ mpc = "serving"
  /\ ~consumer_running

(* ------------------------------- C13 ----------------------------------- *)

\* The notification just put on the output queue.
NewNotification == outQ'[Len(outQ')]

\* A step that puts a notification on the output queue.
Publishes == outQ' # outQ

\* The kind the mapping table gives for each input queue.
C13_KindTable ==
  [q \in Queues |->
     CASE q = usuarios_queue -> "user_welcome"
       [] q = sesiones_queue -> "login_notification"
       [] q = password_reset_queue -> "password_reset"
       [] q = password_updated_queue -> "password_updated"]

\* C13: whatever the payload, a notification published for a delivery has
\* the kind the table gives for the queue the delivery came from.
C13_KindFollowsQueue ==
  [][Publishes =>
       /\ outQ' = Append(outQ, NewNotification)
       /\ NewNotification.q = cur.q
       /\ NewNotification.msg.type = C13_KindTable[cur.q]]_vars

\* The body with every field of every variant, arriving on the session
\* queue, was published as a login notification.
C13_Witness ==
  /\ wpc = "ack"
  /\ cur.q = sesiones_queue
  /\ cur.body = FullBody
  /\ Len(outQ) = 1
  /\ outQ[1].msg.type = "login_notification"

(* ------------------------------- C14 ----------------------------------- *)

C14_OnePerPublish ==
  \A id \in MsgIds :
    Cardinality(PublishedFor(id)) = IF Has(id, "publish_ok") THEN 1 ELSE 0

C14_Step ==
  Publishes =>
    /\ DecodeOK(cur.q, cur.body)
    /\ In(ev'[cur.id], "publish_ok")
    /\ outQ' = Append(outQ, NewNotification)
    /\ NewNotification.src = cur.id
    /\ NewNotification.msg.email = cur.body.obj["email"]
    /\ NewNotification.msg.userName = cur.body.obj["nombre"]
    /\ {"email", "userName", "type"} \subseteq NewNotification.msg.keys
    /\ cur.q = password_reset_queue =>
         /\ NewNotification.msg.type = "password_reset"
         /\ "additionalData" \in NewNotification.msg.keys
         /\ ~NewNotification.msg.additionalData.none
         /\ NewNotification.msg.additionalData.items =
              {<<"resetToken", cur.body.obj["token"]>>}

\* C14: a delivery that decoded and whose publish succeeded has exactly one
\* message on the output queue (and any other delivery has none); that
\* message carries the inbound email as email and the inbound nombre as
\* userName, and for a password-reset request its type is password_reset and
\* its additionalData is exactly {resetToken: the inbound token}.
C14_OneMessageWithInboundFields == []C14_OnePerPublish /\ [][C14_Step]_vars

\* Luis's password-reset request was published with its token.
C14_Witness ==
  /\ wpc = "ack"
  /\ cur.q = password_reset_queue
  /\ Has(cur.id, "publish_ok")
  /\ Len(outQ) = 1
  /\ outQ[1].msg.email = "c@d.org"
  /\ outQ[1].msg.userName = "Luis"
  /\ outQ[1].msg.additionalData = Dict({<<"resetToken", "XYZ">>})

(* ------------------------------- C15 ----------------------------------- *)

\* The delivery being handled has been published and waits for its ack.
JustPublished ==
  /\ wpc = "ack"
  /\ Has(cur.id, "publish_ok")
  /\ outQ # <<>>
  /\ outQ[Len(outQ)].src = cur.id

\* The delivery carries no enrichment data: a password-updated event, or a
\* user-created event whose activationToken and baseUrl are absent or empty.
NoEnrichment(m) ==
  \/ m.q = password_updated_queue
  \/ /\ m.q = usuarios_queue
     /\ m.body.obj["activationToken"] \in {Absent, Null, ""}
     /\ m.body.obj["baseUrl"] \in {Absent, Null, ""}

\* C15 (as claimed): the message published for a delivery without enrichment
\* data has no additionalData key at all.
C15_AdditionalDataAbsent ==
  (JustPublished /\ NoEnrichment(cur)) =>
    "additionalData" \notin outQ[Len(outQ)].msg.keys

(* ------------------------------- C16 ----------------------------------- *)

\* The four keys of a login notification's payload.
LoginKeys == {"ipAddress", "userAgent", "deviceInfo", "location"}

\* The value the published payload holds under key k.
PayloadValue(msg, k) ==
  CHOOSE v \in {it[2] : it \in {i \in msg.additionalData.items : i[1] = k}} : TRUE

\* The payload has each of the four keys exactly once, none of them null.
C16_AllKeysNotNull(msg) ==
  /\ "additionalData" \in msg.keys
  /\ ~msg.additionalData.none
  /\ {it[1] : it \in msg.additionalData.items} = LoginKeys
  /\ Cardinality(msg.additionalData.items) = Cardinality(LoginKeys)
  /\ \A it \in msg.additionalData.items : it[2] \notin {None, Null, Absent}

C16_Placeholder(k) ==
  IF k \in {"ipAddress", "location"} THEN "Desconocida" ELSE "Desconocido"

Started(id) == ev[id] # <<>> \/ cur.id = id
Finished(id) ==
  /\ ev[id] # <<>>
  /\ ev[id][Len(ev[id])] \in {"ack_ok", "nack_ok", "nack_requeue", "nack_fail"}

C17_Inv ==
  \* at most one handler is running, and it is the one of the delivery in cur
  /\ \A i, j \in MsgIds :
       (Started(i) /\ ~Finished(i) /\ Started(j) /\ ~Finished(j)) => i = j
  /\ \A i \in MsgIds : (Started(i) /\ ~Finished(i)) => cur.id = i
  \* only the oldest message waiting on a queue can have been delivered
  /\ \A q \in Queues : \A a \in DOMAIN inQ[q] :
       a > 1 => ~Started(inQ[q][a].id)
  \* notifications made from one queue are in the order of arrival
  /\ \A i, j \in DOMAIN outQ :
       (i < j /\ outQ[i].q = outQ[j].q) => outQ[i].src < outQ[j].src

C17_Step ==
  \* a delivery is dispatched only when no callback is running, and it is
  \* the oldest message of its queue
  (cur' # cur /\ cur' # NoMsg) =>
    /\ cur = NoMsg
    /\ wpc = "consuming"
    /\ \A id \in MsgIds : Started(id) => Finished(id)
    /\ inQ[cur'.q] # <<>>
    /\ cur'.id = Head(inQ[cur'.q]).id

\* C17: at most one on_message callback runs at a time, a delivery being
\* dispatched only once the previous callback is over; each queue's
\* messages are dispatched oldest first, and the notifications published for
\* two messages of one queue are on the output queue in that order.
C17_OneAtATimeInOrder == []C17_Inv /\ [][C17_Step]_vars

\* Two messages of the same queue were both published, in order.
C17_Witness ==
  /\ Len(outQ) = 2
  /\ outQ[1].q = outQ[2].q
  /\ outQ[1].src = 1
  /\ outQ[2].src = 2
  /\ Finished(1) /\ Finished(2)

(* ------------------------------- C18 ----------------------------------- *)

\* What the declarations of session s leave on the broker.
C18_TopologyOf(s) ==
  IF s = "consumer"
    THEN [exchanges |-> {[exchange |-> "app.events", exchange_type |-> "topic",
                          durable |-> TRUE]},
          queues |-> {[queue |-> q, durable |-> TRUE] : q \in Queues},
          bindings |->
            {[exchange |-> "app.events", queue |-> "usuarios.events",
              routing_key |-> "usuarios.created"],
             [exchange |-> "app.events", queue |-> "sesiones.events",
              routing_key |-> "sesiones.iniciada"],
             [exchange |-> "app.events", queue |-> "password.reset.requested",
              routing_key |-> "password.reset.requested"],
             [exchange |-> "app.events", queue |-> "password.updated",
              routing_key |-> "password.updated"]}]
    ELSE [exchanges |-> {[exchange |-> "app.events", exchange_type |-> "topic",
                          durable |-> TRUE]},
          queues |-> {[queue |-> "notifications.delivery", durable |-> TRUE]},
          bindings |->
            {[exchange |-> "app.events", queue |-> "notifications.delivery",
              routing_key |-> "notifications.send"]}]

\* Everything of topology t is on broker b.
C18_Within(t, b) ==
  /\ t.exchanges \subseteq b.exchanges
  /\ t.queues \subseteq b.queues
  /\ t.bindings \subseteq b.bindings

C18_Inv ==
  \* no declaration is ever refused
  /\ ~declError
  \* both sessions declare the exchange alike, and every queue durable
  /\ ConsumerCalls[1] = PublisherCalls[1]
  /\ \A s \in Sessions : \A i \in DOMAIN Calls(s) :
       Calls(s)[i].op \in {"exchange_declare", "queue_declare"} =>
         Calls(s)[i].durable
  \* a session that has run its setup has left its topology on the broker,
  \* and nothing is there that the two setups do not declare
  /\ \A s \in Sessions :
       setupsDone[s] >= 1 => C18_Within(C18_TopologyOf(s), broker)
  /\ broker.exchanges \subseteq C18_TopologyOf("consumer").exchanges
  /\ broker.queues \subseteq
       C18_TopologyOf("consumer").queues \cup C18_TopologyOf("publisher").queues
  /\ broker.bindings \subseteq
       C18_TopologyOf("consumer").bindings \cup C18_TopologyOf("publisher").bindings

\* a declaration made by a session that has run its setup before changes
\* nothing on the broker
C18_Step ==
  \A s \in Sessions :
    (setupsDone[s] >= 1 /\ <<declPc[s], setupsDone[s]>>' # <<declPc[s], setupsDone[s]>>)
      => broker' = broker

\* C18: the consumer and the publisher declare the exchange with the same
\* properties (topic, durable) and every queue durable; in whatever order
\* and however often their setups run, no declaration is refused, and a
\* setup that runs again leaves exchanges, queues and bindings as its first
\* run left them.
C18_RedeclarationIsIdempotent == []C18_Inv /\ [][C18_Step]_vars

\* Both setups have run twice, the consumer's first time after the
\* publisher had declared the exchange.
C18_Witness ==
  /\ setupsDone["consumer"] = 2
  /\ setupsDone["publisher"] = 2
  /\ ~declError
  /\ Cardinality(broker.queues) = 5
  /\ Cardinality(broker.bindings) = 5
  /\ Cardinality(broker.exchanges) = 1

(* ------------------------------- C19 ----------------------------------- *)

\* The inbound key the mapping table names as the source of the timestamp;
\* for a user-created event it names the clock instead.
C19_SourceKey(q) ==
  CASE q = sesiones_queue -> "timestamp"
    [] q = password_reset_queue -> "fechaSolicitud"
    [] q = password_updated_queue -> "fechaActualizacion"
    [] q = usuarios_queue -> "clock"

\* C19: the timestamp of a published notification is the instant of the
\* inbound timestamp (session), fechaSolicitud (password reset) or
\* fechaActualizacion (password updated); for a user-created event it is the
\* reading of the clock while the event is handled, not the event's own
\* timestamp.
C19_TimestampSource ==
  JustPublished =>
    LET msg == outQ[Len(outQ)].msg
    IN /\ "timestamp" \in msg.keys
       /\ IF cur.q = usuarios_queue
            THEN /\ msg.timestamp = IsoFormat(Now(cur.id))
                 /\ msg.timestamp # IsoFormat(ParseDatetime(cur.body.obj["timestamp"]))
            ELSE msg.timestamp =
                   IsoFormat(ParseDatetime(cur.body.obj[C19_SourceKey(cur.q)]))

\* A user-created event stamped 2024-01-02 11:30 was published with the
\* time of its handling on 2024-01-03.
C19_Witness ==
  /\ JustPublished
  /\ cur.q = usuarios_queue
  /\ cur.body.obj["timestamp"] = "2024-01-02T11:30:00"
  /\ outQ[Len(outQ)].msg.timestamp.day = 3

(* ------------------------------- C20 ----------------------------------- *)

\* The events with which on_message begins: one per time it is entered.
EntryEvents == {"json_fail", "validation_fail", "decode_ok"}

\* The times on_message was entered for message id and got past decoding.
Entries(id) == {i \in DOMAIN ev[id] : ev[id][i] \in EntryEvents}

C20_Inv ==
  \A id \in MsgIds :
    /\ ~Has(id, "nack_requeue")
    /\ Cardinality(Entries(id)) <= 1
    /\ Cardinality(PublishedFor(id)) <= 1
    /\ Has(id, "nack_ok") =>
         \A q \in Queues : \A i \in DOMAIN inQ[q] : inQ[q][i].id # id

C20_Step ==
  (cur' # cur /\ cur' # NoMsg) => ev[cur'.id] = <<>>

\* C20: no basic_nack asks for a requeue, and a nacked message leaves its
\* queue; a message is dispatched to on_message only if it has never been
\* before, so on_message runs at most once for it and at most one
\* notification is published for it, whatever fails on the way.
C20_AtMostOnce == []C20_Inv /\ [][C20_Step]_vars

\* A message was published, its basic_ack and then its basic_nack raised,
\* the worker ended, and the message is still unsettled on its queue with
\* one notification out.
C20_Witness ==
  \E id \in MsgIds :
    /\ ev[id] = <<"decode_ok", "publish_ok", "ack_fail", "nack_fail">>
    /\ wpc = "dead"
    /\ Cardinality(PublishedFor(id)) = 1
    /\ \E q \in Queues : inQ[q] # <<>> /\ inQ[q][1].id = id

(* ------------------------------- C21 ----------------------------------- *)

\* C21 (as claimed): when signal_handler has run down to its sys.exit(0), no
\* connection this process opened is still open, wherever the worker was
\* when the signal came.
C21_SignalClosesEveryConnection ==
  mpc \in {"exit", "exited"} => \A s \in Sessions : ~NotClosed(conn[s])

(* ------------------------------- C22 ----------------------------------- *)

\* The settlement calls on_message has issued for the delivery of message id.
Settlements(id) == {i \in DOMAIN ev[id] : ev[id][i] \in AckEvents \union NackEvents}

\* C22 (as claimed): on_message issues exactly one settlement call for its
\* delivery tag, a basic_ack or a basic_nack and never both, also when the
\* basic_ack raises: no delivery ever has two settlement calls, and a
\* callback that has returned or raised has issued one.
C22_ExactlyOneSettlement ==
  \A id \in MsgIds :
    /\ Cardinality(Settlements(id)) <= 1
    /\ (ev[id] # <<>> /\ cur.id # id) => Cardinality(Settlements(id)) = 1

(* ------------------------------- C23 ----------------------------------- *)

\* The session whose setup_connection the worker is inside, between two
\* attempts or at the start of one.
C23_Retrying(s) ==
  \/ s = "consumer" /\ wpc \in {"c_sleep", "c_try"}
  \/ s = "publisher" /\ wpc \in {"p_sleep", "p_try"}

\* C23 (as claimed): setup_connection leaves at most one connection of its
\* own open. An attempt that opened a connection and then failed does not
\* leave it open for the next attempt to overwrite, and when the worker has
\* left through its error exit (retries exhausted, or an error after setup)
\* no session is open.
C23_SetupLeavesNoConnectionBehind ==
  /\ \A s \in Sessions : C23_Retrying(s) => ~NotClosed(conn[s])
  /\ (wpc = "dead" /\ exitCause \in {"exhausted", "error"}) =>
       \A s \in Sessions : ~NotClosed(conn[s])

(* ------------------------------- C24 ----------------------------------- *)

\* The stage of startup the worker is in.
C24_Stage(pc) ==
  CASE pc = "idle" -> 0
    [] pc \in {"c_try", "c_sleep", "c_assign"} -> 1
    [] pc \in {"p_try", "p_sleep", "p_assign"} -> 2
    [] pc = "register" -> 3
    [] pc \in HandlerPcs \union {"consuming", "closing"} -> 4
    [] pc = "dead" -> 5

\* Every declaration and binding of the session's setup is on the broker.
C24_TopologyOf(s) ==
  LET t == DeclareAll(EmptyBroker, Calls(s))
  IN /\ t.exchanges \subseteq broker.exchanges
     /\ t.queues \subseteq broker.queues
     /\ t.bindings \subseteq broker.bindings

\* The output queue is declared and bound to the exchange under the
\* notifications routing key.
C24_OutputDeclared ==
  /\ [queue |-> notifications_queue, durable |-> TRUE] \in broker.queues
  /\ [exchange |-> exchange_name, queue |-> notifications_queue,
      routing_key |-> notifications_routing_key] \in broker.bindings

C24_Inv ==
  \* the publisher's setup starts only once the consumer is constructed
  /\ C24_Stage(wpc) \in {2, 3, 4} => ref["consumer"] /\ C24_TopologyOf("consumer")
  \* registration and the consume loop only once the publisher is too
  /\ C24_Stage(wpc) \in {3, 4} => ref["publisher"] /\ C24_TopologyOf("publisher")
  /\ registered => ref["publisher"] /\ C24_OutputDeclared
  \* the loop is entered with the handlers registered
  /\ C24_Stage(wpc) = 4 => registered
  \* no handler before the publisher exists and its queue is declared and bound
  /\ wpc \in HandlerPcs => ref["publisher"] /\ C24_OutputDeclared
  /\ cur # NoMsg => ref["publisher"] /\ C24_OutputDeclared
  /\ outQ # <<>> => C24_OutputDeclared

C24_Step ==
  \* the stages follow each other, none skipped, none repeated; the only way
  \* out of the sequence is the end of the thread
  /\ C24_Stage(wpc') \in {C24_Stage(wpc), C24_Stage(wpc) + 1, 5}
  \* a notification is published to a declared and bound output queue
  /\ Publishes => C24_OutputDeclared

\* C24: startup is ordered (consumer connection and topology, publisher
\* connection and output-queue binding, registration of the handlers, consume
\* loop), so no handler runs before the publisher is constructed and the
\* output queue declared and bound, and nothing is published to an undeclared
\* output queue.
C24_StartupIsOrdered == []C24_Inv /\ [][C24_Step]_vars

\* A handler is publishing its notification, an earlier one already on the
\* output queue.
C24_Witness ==
  /\ wpc = "publish"
  /\ outQ # <<>>
  /\ ref["publisher"]
  /\ C24_OutputDeclared

(* ------------------------------- C25 ----------------------------------- *)

\* Message id is with its on_message callback and has not been settled.
C25_InHandler(id) ==
  /\ cur.id = id
  /\ wpc \in HandlerPcs
  /\ ~Has(id, "ack_ok")
  /\ ~Has(id, "nack_ok")

\* Message id has been settled: a basic_ack or a basic_nack for it succeeded.
C25_Settled(id) == Has(id, "ack_ok") \/ Has(id, "nack_ok")

\* The consume loop has ended with the error exit of the worker.
C25_LoopFailed == wpc = "dead" /\ exitCause = "error"

\* C25: with the worker scheduled fairly and every broker call answered, a
\* message delivered to on_message is eventually settled (acked or nacked)
\* or the consume loop ends with a fatal error; no message stays delivered
\* and unsettled for ever while the loop keeps running (the loop no longer
\* runs once the process has exited).
C25_DeliveredIsEventuallySettled ==
  \A id \in MsgIds :
    C25_InHandler(id) ~> (C25_Settled(id) \/ C25_LoopFailed \/ ~Alive)

\* The two ways out are both taken: one message was settled, and the loop
\* then failed on another that was delivered and never settled.
C25_Witness ==
  /\ C25_LoopFailed
  /\ Alive
  /\ \E i, j \in MsgIds :
       /\ C25_Settled(i)
       /\ ev[j] # <<>>
       /\ ~C25_Settled(j)

====
